---------------------------- MODULE Spec2Model ----------------------------
(***************************************************************************)
(* index_alloc: a fixed-capacity allocator.  A pool of MEMORY_SIZE bytes   *)
(* is partitioned by a region index of INDEX_SIZE slots                    *)
(* (src/src/index.rs); the allocator shell reserves and releases regions;  *)
(* Box (src/src/boxed.rs) and Rc / Weak (src/src/rc.rs) are built on it.   *)
(*                                                                         *)
(* Slots are numbered from 0 as in the source.  An Option<MemoryRegion>    *)
(* is either None or a record [from, size, used].  A Result is             *)
(* [ok |-> TRUE, val |-> v] or [ok |-> FALSE, err |-> e].                  *)
(***************************************************************************)
EXTENDS Integers, Sequences, FiniteSets, TLC

(***************************************************************************)
(* Bounds of the model.                                                    *)
(***************************************************************************)
MaxMemory == 3      \* MEMORY_SIZE is drawn from 1..MaxMemory
MaxIndex == 5       \* INDEX_SIZE is drawn from 1..MaxIndex
MaxSize == 2        \* requested sizes are drawn from 1..MaxSize
MaxBoxes == 2       \* Box values alive at one time
MaxBlocks == 1      \* control blocks alive at one time
MaxHandles == 3     \* Rc and Weak handles alive on one control block
MaxGarbage == 1     \* an overwritten counter reads as a value in 0..MaxGarbage

Aligns == {1, 2}    \* Layout alignments are powers of two

\* Base addresses of the buffer: one per residue modulo the largest alignment
Starts == {0, 1}

VARIABLES
    MEMORY_SIZE,     \* const generic MEMORY_SIZE of the allocator
    memory_start,    \* address of the first byte of IndexAllocator::memory
    regions,         \* MemoryIndex::regions, a function on 0..INDEX_SIZE-1
    panicked,        \* TRUE once an operation has panicked (the program aborts)
    live,            \* raw allocations handed out and not yet released
    last,            \* the last operation and its result
    boxes,           \* the live Box values
    rcs,             \* the control blocks (RcBox) with their live Rc and Weak handles
    refused,         \* a Box or Rc construction has returned Err
    borrowed         \* the RefCell of the index is mutably borrowed

vars == <<MEMORY_SIZE, memory_start, regions, panicked, live, last, boxes, rcs,
          refused, borrowed>>

(***************************************************************************)
(* Values                                                                  *)
(***************************************************************************)
None == [none |-> TRUE]

Ok(v) == [ok |-> TRUE, val |-> v]

Err(e) == [ok |-> FALSE, err |-> e]

Min(S) == CHOOSE i \in S : \A j \in S : i <= j

\* MemoryRegion::new
MemoryRegion(from, size, used) == [from |-> from, size |-> size, used |-> used]

\* MemoryRegion::end
end(r) == r.from + r.size

\* MemoryRegion::contains
contains(r, addr) == r.from <= addr /\ addr < r.from + r.size

\* MemoryIndex::empty
empty(memory_size, index_size) ==
    [i \in 0 .. index_size - 1 |->
        IF i = 0 THEN MemoryRegion(0, memory_size, FALSE) ELSE None]

\* INDEX_SIZE of an index
INDEX_SIZE(regs) == Cardinality(DOMAIN regs)

(***************************************************************************)
(* MemoryIndex (src/src/index.rs)                                          *)
(***************************************************************************)
\* MemoryIndex::available_index: the first vacant slot
available_index(regs) ==
    LET S == {i \in DOMAIN regs : regs[i] = None}
    IN  IF S = {} THEN Err("NoIndexAvailable") ELSE Ok(Min(S))

\* A search that takes the first region that begins at or before addr
find_region_from_only(regs, addr) ==
    LET S == {i \in DOMAIN regs : IF regs[i] = None THEN FALSE ELSE regs[i].from <= addr}
    IN  IF S = {} THEN Err("OutOfMemory") ELSE Ok(Min(S))

\* MemoryIndex::find_region: the first slot whose region contains addr
find_region(regs, addr) ==
    LET S == {i \in DOMAIN regs : regs[i] # None /\ contains(regs[i], addr)}
    IN  IF S = {} THEN Err("OutOfMemory") ELSE Ok(Min(S))

\* The size computed as (x / a + 1) * a: the next multiple of a above x, also
\* when x is a multiple of a already
next_multiple_above(x, a) == (x \div a + 1) * a

\* usize::next_multiple_of
next_multiple_of(x, a) == IF x % a = 0 THEN x ELSE x + (a - (x % a))

\* the offset computed for one region in size_region_available
align_offset(r, start, align) ==
    next_multiple_of(start + r.from, align) - start - r.from

\* A fit search that looks at the size of a free region only and places the
\* request at the start of the region, whatever the alignment asked for
size_region_available_by_size(regs, start, size, align) ==
    LET S == {i \in DOMAIN regs :
                regs[i] # None /\ ~regs[i].used /\ regs[i].size >= size}
    IN  IF S = {} THEN Err("NoFittingRegion")
        ELSE Ok([region |-> Min(S), offset |-> 0])

\* A fit search that takes the first free region without looking whether the
\* layout fits in it
size_region_available_any_free(regs, start, size, align) ==
    LET S == {i \in DOMAIN regs : regs[i] # None /\ ~regs[i].used}
    IN  IF S = {} THEN Err("NoFittingRegion")
        ELSE Ok([region |-> Min(S),
                 offset |-> align_offset(regs[Min(S)], start, align)])

\* A fit search that takes the fitting free region of the lowest address
\* instead of the lowest slot
size_region_available_by_address(regs, start, size, align) ==
    LET S == {i \in DOMAIN regs :
                /\ regs[i] # None
                /\ ~regs[i].used
                /\ regs[i].from + align_offset(regs[i], start, align) + size
                      <= end(regs[i])}
        lowest == CHOOSE i \in S : \A j \in S :
                      \/ regs[i].from < regs[j].from
                      \/ (regs[i].from = regs[j].from /\ i <= j)
    IN  IF S = {} THEN Err("NoFittingRegion")
        ELSE Ok([region |-> lowest,
                 offset |-> align_offset(regs[lowest], start, align)])

\* MemoryIndex::size_region_available: first free region, in slot order,
\* in which the layout fits at an aligned address
size_region_available(regs, start, size, align) ==
    LET S == {i \in DOMAIN regs :
                /\ regs[i] # None
                /\ ~regs[i].used
                /\ regs[i].from + align_offset(regs[i], start, align) + size
                      <= end(regs[i])}
    IN  IF S = {} THEN Err("NoFittingRegion")
        ELSE Ok([region |-> Min(S),
                 offset |-> align_offset(regs[Min(S)], start, align)])

\* A split that resizes the left region before it looks for a vacant slot
split_region_resize_first(regs, region, size) ==
    IF regs[region] = None
    THEN [res |-> Err("NoSuchRegion"), regions |-> regs]
    ELSE IF regs[region].size < size
    THEN [res |-> Err("RegionTooThin"), regions |-> regs]
    ELSE LET left == [regs EXCEPT ![region].size = size]
             right_index == available_index(regs)
         IN  IF ~right_index.ok
             THEN [res |-> Err(right_index.err), regions |-> left]
             ELSE [res |-> Ok(<<region, right_index.val>>),
                   regions |->
                      [left EXCEPT
                         ![right_index.val] =
                             MemoryRegion(regs[region].from + size,
                                          regs[region].size - size,
                                          regs[region].used)]]

\* A split that marks the right piece free whatever the region was
split_region_free_right(regs, region, size) ==
    IF regs[region] = None
    THEN [res |-> Err("NoSuchRegion"), regions |-> regs]
    ELSE IF regs[region].size < size
    THEN [res |-> Err("RegionTooThin"), regions |-> regs]
    ELSE LET right_index == available_index(regs)
         IN  IF ~right_index.ok
             THEN [res |-> Err(right_index.err), regions |-> regs]
             ELSE [res |-> Ok(<<region, right_index.val>>),
                   regions |->
                      [regs EXCEPT
                         ![region] = MemoryRegion(regs[region].from, size,
                                                  regs[region].used),
                         ![right_index.val] =
                             MemoryRegion(regs[region].from + size,
                                          regs[region].size - size, FALSE)]]

\* MemoryIndex::split_region: [res, regions]
split_region(regs, region, size) ==
    IF regs[region] = None
    THEN [res |-> Err("NoSuchRegion"), regions |-> regs]
    ELSE IF regs[region].size < size
    THEN [res |-> Err("RegionTooThin"), regions |-> regs]
    ELSE LET right_index == available_index(regs)
         IN  IF ~right_index.ok
             THEN [res |-> Err(right_index.err), regions |-> regs]
             ELSE LET left_size == size
                      right_size == regs[region].size - size
                  IN  [res |-> Ok(<<region, right_index.val>>),
                       regions |->
                          [regs EXCEPT
                             ![region] = MemoryRegion(regs[region].from, left_size,
                                                      regs[region].used),
                             ![right_index.val] =
                                 MemoryRegion(regs[region].from + left_size,
                                              right_size, regs[region].used)]]

\* The orders sort_unstable_by may leave the slots in: regions ascending by
\* from, vacant slots last.  The order of regions with equal from is not
\* specified by an unstable sort: every such order is an outcome.
RECURSIVE sorted_orders(_, _)
sorted_orders(regs, S) ==
    IF S = {} THEN {<<>>}
    ELSE LET somes == {i \in S : regs[i] # None}
         IN  IF somes = {}
             THEN {[k \in 1 .. Cardinality(S) |-> None]}
             ELSE LET firsts == {i \in somes :
                                   \A j \in somes : regs[i].from <= regs[j].from}
                  IN  UNION {{<<regs[i]>> \o t : t \in sorted_orders(regs, S \ {i})}
                                : i \in firsts}

\* the slot arrays the sort of sort_merge can produce
sort_unstable_by(regs) ==
    {[i \in DOMAIN regs |-> s[i + 1]] : s \in sorted_orders(regs, DOMAIN regs)}

\* the last loop of sort_merge: erase the slots from new_counter on
erase_from(regs, new_counter) ==
    [i \in DOMAIN regs |-> IF i >= new_counter THEN None ELSE regs[i]]

\* The merge loop of sort_merge: [regions, panic].  merge_loop is the
\* `while let` over counter, merge_run the inner `for i in counter..INDEX_SIZE`.
RECURSIVE merge_loop(_, _, _)
RECURSIVE merge_run(_, _, _, _, _)
merge_loop(regs, new_counter, counter) ==
    IF counter >= INDEX_SIZE(regs)
    THEN \* self.regions[counter] is indexed out of bounds
         [regions |-> regs, panic |-> TRUE]
    ELSE IF regs[counter] = None
    THEN [regions |-> erase_from(regs, new_counter), panic |-> FALSE]
    ELSE IF regs[counter].used
    THEN merge_loop([regs EXCEPT ![new_counter] = regs[counter]],
                    new_counter + 1, counter + 1)
    ELSE merge_run(regs, new_counter, regs[counter].from, 0, counter)

merge_run(regs, new_counter, from, size, i) ==
    IF regs[i] # None
    THEN IF regs[i].used
         THEN merge_loop([regs EXCEPT ![new_counter] = MemoryRegion(from, size, FALSE)],
                         new_counter + 1, i)
         ELSE IF i + 1 = INDEX_SIZE(regs)
         THEN \* break 'merge_loop: new_counter is not advanced
              [regions |->
                 erase_from([regs EXCEPT ![new_counter] =
                                MemoryRegion(from, size + regs[i].size, FALSE)],
                            new_counter),
               panic |-> FALSE]
         ELSE merge_run(regs, new_counter, from, size + regs[i].size, i + 1)
    ELSE merge_loop([regs EXCEPT ![new_counter] = MemoryRegion(from, size, FALSE)],
                    new_counter + 1, i)

\* A coalesce pass that also joins the first two used regions that are
\* adjacent, as it joins free regions
sort_merge_joining_used(regs) ==
    {LET o == merge_loop(s, 0, 0)
         r == o.regions
         J == {i \in DOMAIN r :
                 /\ i + 1 \in DOMAIN r
                 /\ IF r[i] = None \/ r[i + 1] = None THEN FALSE
                    ELSE r[i].used /\ r[i + 1].used /\ end(r[i]) = r[i + 1].from}
     IN  IF o.panic \/ J = {} THEN o
         ELSE [o EXCEPT !.regions =
                  [k \in DOMAIN r |->
                      IF k < Min(J) THEN r[k]
                      ELSE IF k = Min(J)
                      THEN MemoryRegion(r[k].from, r[k].size + r[k + 1].size, TRUE)
                      ELSE IF k + 1 \in DOMAIN r THEN r[k + 1]
                      ELSE None]]
        : s \in sort_unstable_by(regs)}

\* MemoryIndex::sort_merge: the set of outcomes [regions, panic]
sort_merge(regs) == {merge_loop(s, 0, 0) : s \in sort_unstable_by(regs)}

(***************************************************************************)
(* IndexAllocator                                                          *)
(***************************************************************************)
\* Layout::pad_to_align
pad_to_align(size, align) == next_multiple_of(size, align)

\* IndexAllocator::try_reserve: [res, regions]; res.val is the offset
try_reserve(regs, start, size, align) ==
    LET mem_size == pad_to_align(size, align)
        baker == size_region_available(regs, start, mem_size, align)
    IN  IF ~baker.ok THEN [res |-> Err(baker.err), regions |-> regs]
        ELSE LET sp == split_region(regs, baker.val.region,
                                    baker.val.offset + mem_size)
             IN  IF ~sp.res.ok THEN [res |-> Err(sp.res.err), regions |-> sp.regions]
                 ELSE LET region_index == sp.res.val[1]
                      IN  [res |-> Ok(sp.regions[region_index].from + baker.val.offset),
                           regions |-> [sp.regions EXCEPT ![region_index].used = TRUE]]

\* RefCell::try_borrow_mut on the index, as the first step of a reservation
\* or a release: refused while the index is borrowed
try_borrow_mut(b) ==
    IF b THEN Err("IndexAlreadyBorrowed") ELSE Ok(<<>>)

\* IndexAllocator::try_free: the set of outcomes [res, regions, panic]
try_free(regs, addr) ==
    LET region_index == find_region(regs, addr)
    IN  IF ~region_index.ok
        THEN {[res |-> Err(region_index.err), regions |-> regs, panic |-> FALSE]}
        ELSE {[res |-> Ok(<<>>), regions |-> o.regions, panic |-> o.panic] :
                o \in sort_merge([regs EXCEPT ![region_index.val].used = FALSE])}

(***************************************************************************)
(* The allocator driven through its byte interface                         *)
(***************************************************************************)
NoOp == [op |-> "none"]

Init ==
    /\ MEMORY_SIZE \in 1 .. MaxMemory
    /\ memory_start \in Starts
    /\ \E n \in 1 .. MaxIndex : regions = empty(MEMORY_SIZE, n)
    /\ panicked = FALSE
    /\ live = {}
    /\ last = NoOp
    /\ boxes = {}
    /\ rcs = {}
    /\ refused = FALSE
    /\ borrowed = FALSE

\* RefCell::borrow_mut on the index: FALSE when the index is borrowed already
\* and the call panics with BorrowMutError
borrow_mut(b) == ~b

\* IndexAllocator::try_free from `self.index.borrow_mut()` on: the outcomes
\* [res, regions, panic]
guarded_free(regs, addr, b) ==
    IF ~borrow_mut(b)
    THEN {[res |-> Err("BorrowMutError"), regions |-> regs, panic |-> TRUE]}
    ELSE try_free(regs, addr)

\* the byte range of a live allocation
LiveRange(a) == a.off .. (a.off + a.size - 1)

\* A pointer the client holds: the offset returned and the size asked for; dup
\* tells apart pointers that are otherwise equal.
Pointer(off, size) ==
    [off |-> off, size |-> size,
     dup |-> Min({d \in 0 .. Cardinality(live) :
                    \A a \in live : ~(a.off = off /\ a.size = size /\ a.dup = d)})]

\* try_alloc_bytes(size, align): the client keeps the pointer
Reserve(size, align) ==
    /\ ~panicked
    /\ LET index == try_borrow_mut(borrowed)
           r == IF ~index.ok THEN [res |-> index, regions |-> regions]
                ELSE try_reserve(regions, memory_start, size, align)
       IN  /\ regions' = r.regions
           /\ live' = IF r.res.ok
                      THEN live \cup {Pointer(r.res.val, size)}
                      ELSE live
           /\ last' = [op |-> "reserve", size |-> size, align |-> align,
                       res |-> r.res]
    /\ UNCHANGED <<MEMORY_SIZE, memory_start, panicked, boxes, rcs, refused, borrowed>>

\* try_free_bytes(pointer) of a pointer the client holds
Release(a) ==
    /\ ~panicked
    /\ a \in live
    /\ \E o \in guarded_free(regions, a.off, borrowed) :
        /\ regions' = o.regions
        /\ panicked' = o.panic
        /\ live' = IF o.res.ok THEN live \ {a} ELSE live
        /\ last' = [op |-> "release", res |-> o.res]
    /\ UNCHANGED <<MEMORY_SIZE, memory_start, boxes, rcs, refused, borrowed>>

\* try_free_bytes of an address that lies in no region of the index
ReleaseInvalid(addr) ==
    /\ ~panicked
    /\ \A i \in DOMAIN regions :
          IF regions[i] = None THEN TRUE
          ELSE ~(regions[i].from <= addr /\ addr < end(regions[i]))
    /\ \E o \in guarded_free(regions, addr, borrowed) :
        /\ regions' = o.regions
        /\ panicked' = o.panic
        /\ last' = [op |-> "release_invalid", res |-> o.res]
    /\ UNCHANGED <<MEMORY_SIZE, memory_start, live, boxes, rcs, refused, borrowed>>

Next ==
    \/ \E size \in 1 .. MaxSize, align \in Aligns : Reserve(size, align)
    \/ \E a \in live : Release(a)
    \/ \E addr \in 0 .. MEMORY_SIZE : ReleaseInvalid(addr)

Spec == Init /\ [][Next]_vars

\* try_free_bytes of an address that lies in a region that is free already
\* (a pointer released before, or never handed out)
ReleaseFreed(addr) ==
    /\ ~panicked
    /\ find_region(regions, addr).ok
    /\ ~regions[find_region(regions, addr).val].used
    /\ \E o \in guarded_free(regions, addr, borrowed) :
        /\ regions' = o.regions
        /\ panicked' = o.panic
        /\ last' = [op |-> "release_freed", addr |-> addr, res |-> o.res]
    /\ UNCHANGED <<MEMORY_SIZE, memory_start, live, boxes, rcs, refused, borrowed>>

\* the byte interface with releases of addresses released before
NextFreed ==
    \/ \E size \in 1 .. MaxSize, align \in Aligns : Reserve(size, align)
    \/ \E a \in live : Release(a)
    \/ \E addr \in 0 .. MEMORY_SIZE : ReleaseInvalid(addr)
    \/ \E addr \in 0 .. MEMORY_SIZE : ReleaseFreed(addr)

SpecFreed == Init /\ [][NextFreed]_vars

\* An operation has borrowed the index and has not returned yet
Enter ==
    /\ ~panicked
    /\ ~borrowed
    /\ borrowed' = TRUE
    /\ UNCHANGED <<MEMORY_SIZE, memory_start, regions, panicked, live, last,
                   boxes, rcs, refused>>

\* The operation that had borrowed the index returns: the RefMut is dropped
Leave ==
    /\ ~panicked
    /\ borrowed
    /\ borrowed' = FALSE
    /\ UNCHANGED <<MEMORY_SIZE, memory_start, regions, panicked, live, last,
                   boxes, rcs, refused>>

\* the byte interface, called also while the index is borrowed
NextGuard ==
    \/ \E size \in 1 .. MaxSize, align \in Aligns : Reserve(size, align)
    \/ \E a \in live : Release(a)
    \/ \E addr \in 0 .. MEMORY_SIZE : ReleaseInvalid(addr)
    \/ Enter
    \/ Leave

SpecGuard == Init /\ [][NextGuard]_vars

(***************************************************************************)
(* Box (src/src/boxed.rs) and Rc / Weak (src/src/rc.rs)                    *)
(***************************************************************************)
\* Layout::new::<U>(): the size of a type is a multiple of its alignment
Layouts == {l \in [size : 1 .. MaxSize, align : Aligns] : l.size % l.align = 0}

\* IndexAllocator::try_alloc_value: reserve the layout of the value and move
\* the value there; [res, regions], res.val is the offset of the value
try_alloc_value(regs, start, layout) ==
    try_reserve(regs, start, layout.size, layout.align)

\* IndexAllocator::try_free_value: release the region the reference points into
try_free_value(regs, ptr) == try_free(regs, ptr)

\* Result::unwrap on the outcomes of a release: an Err panics
unwrap(outcomes) ==
    {[regions |-> o.regions, panic |-> o.panic \/ ~o.res.ok] : o \in outcomes}

\* A Box: the offset of its value; dup tells apart boxes otherwise equal
NewBox(off, size) ==
    [val |-> off, size |-> size,
     dup |-> Min({d \in 0 .. Cardinality(boxes) :
                    \A b \in boxes : ~(b.val = off /\ b.size = size /\ b.dup = d)})]

\* The bytes of a control block
BlockRange(b) == b.rc_box .. (b.rc_box + b.bsize - 1)

\* Moving a value into off .. off + size - 1: the control blocks that lie in
\* those bytes are overwritten, and their counters read as any value after
write(blocks, off, size) ==
    LET hit == {b \in blocks : ~b.freed /\ BlockRange(b) \cap (off .. (off + size - 1)) # {}}
    IN  IF hit = {} THEN {blocks}
        ELSE {(blocks \ hit) \cup {[b EXCEPT !.strong = f[b][1], !.weak = f[b][2]] : b \in hit} :
                f \in [hit -> (0 .. MaxGarbage) \X (0 .. MaxGarbage)]}

\* Box::try_new
BoxNew(layout) ==
    /\ ~panicked
    /\ Cardinality(boxes) < MaxBoxes
    /\ LET r == try_alloc_value(regions, memory_start, layout)
       IN  /\ regions' = r.regions
           /\ boxes' = IF r.res.ok THEN boxes \cup {NewBox(r.res.val, layout.size)}
                       ELSE boxes
           /\ rcs' \in IF r.res.ok THEN write(rcs, r.res.val, layout.size) ELSE {rcs}
           /\ refused' = (refused \/ ~r.res.ok)
           /\ last' = [op |-> "box_new", res |-> r.res, pre |-> regions,
                       box |-> NewBox(IF r.res.ok THEN r.res.val ELSE 0, layout.size)]
    /\ UNCHANGED <<MEMORY_SIZE, memory_start, panicked, live, borrowed>>

\* Drop for Box: try_free_value(self.val).unwrap()
BoxDrop(b) ==
    /\ ~panicked
    /\ b \in boxes
    /\ \E o \in unwrap(try_free_value(regions, b.val)) :
        /\ regions' = o.regions
        /\ panicked' = o.panic
    /\ boxes' = boxes \ {b}
    /\ last' = [op |-> "box_drop",
                fresh |-> last.op = "box_new" /\ last.res.ok /\ last.box = b,
                pre |-> IF last.op = "box_new" THEN last.pre ELSE <<>>]
    /\ UNCHANGED <<MEMORY_SIZE, memory_start, live, rcs, refused, borrowed>>

\* Option<&T>
Some(ptr) == [ptr |-> ptr]

\* RcBox as Rc::try_new leaves it (RcBox::try_new, then increment_strong),
\* at offset rc_box of the pool, with the Rc handle try_new returns; rc and wk
\* count the handles the client holds, held tells that the value holds a Weak
\* of this control block
NewRcBox(addr, bsize, ptr, vsize) ==
    [rc_box |-> addr, bsize |-> bsize, val |-> Some(ptr), vsize |-> vsize,
     strong |-> 0 + 1, weak |-> 0, rc |-> 1, wk |-> 0, freed |-> FALSE,
     held |-> FALSE]

\* the control blocks after block b has become c; a block whose region is
\* released and that no handle refers to is gone
Update(b, c) ==
    (rcs \ {b}) \cup (IF c.freed /\ c.rc = 0 /\ c.wk = 0 THEN {} ELSE {c})

\* Rc::try_new
RcNew(vl, bl) ==
    /\ ~panicked
    /\ Cardinality(rcs) < MaxBlocks
    /\ LET v == try_alloc_value(regions, memory_start, vl)
       IN  IF ~v.res.ok
           THEN /\ regions' = regions
                /\ rcs' = rcs
                /\ panicked' = FALSE
                /\ refused' = TRUE
                /\ last' = [op |-> "rc_new", res |-> v.res]
           ELSE LET c == try_alloc_value(v.regions, memory_start, bl)
                IN  IF c.res.ok
                    THEN /\ regions' = c.regions
                         /\ \E w \in write(rcs, v.res.val, vl.size) :
                            \E x \in write(w, c.res.val, bl.size) :
                               rcs' = x \cup {NewRcBox(c.res.val, bl.size,
                                                       v.res.val, vl.size)}
                         /\ panicked' = FALSE
                         /\ refused' = refused
                         /\ last' = [op |-> "rc_new", res |-> c.res,
                                     blk |-> NewRcBox(c.res.val, bl.size,
                                                      v.res.val, vl.size)]
                    ELSE \* Drop for RcBox releases the value
                         /\ \E o \in unwrap(try_free_value(v.regions, v.res.val)) :
                               /\ regions' = o.regions
                               /\ panicked' = o.panic
                         /\ rcs' \in write(rcs, v.res.val, vl.size)
                         /\ refused' = TRUE
                         /\ last' = [op |-> "rc_new", res |-> c.res]
    /\ UNCHANGED <<MEMORY_SIZE, memory_start, live, boxes, borrowed>>

\* Clone for Rc
RcClone(b) ==
    /\ ~panicked
    /\ b \in rcs /\ ~b.freed /\ b.rc > 0
    /\ b.rc + b.wk < MaxHandles
    /\ rcs' = Update(b, [b EXCEPT !.strong = b.strong + 1, !.rc = b.rc + 1])
    /\ last' = [op |-> "rc_clone"]
    /\ UNCHANGED <<MEMORY_SIZE, memory_start, regions, panicked, live, boxes, refused, borrowed>>

\* A downgrade that counts the Weak it returns as a strong reference too
RcDowngradeCountingStrong(b) ==
    /\ ~panicked
    /\ b \in rcs /\ ~b.freed /\ b.rc > 0
    /\ b.rc + b.wk < MaxHandles
    /\ rcs' = Update(b, [b EXCEPT !.weak = b.weak + 1, !.wk = b.wk + 1,
                                 !.strong = b.strong + 1])
    /\ last' = [op |-> "rc_downgrade"]
    /\ UNCHANGED <<MEMORY_SIZE, memory_start, regions, panicked, live, boxes, refused, borrowed>>

\* Rc::downgrade
RcDowngrade(b) ==
    /\ ~panicked
    /\ b \in rcs /\ ~b.freed /\ b.rc > 0
    /\ b.rc + b.wk < MaxHandles
    /\ rcs' = Update(b, [b EXCEPT !.weak = b.weak + 1, !.wk = b.wk + 1])
    /\ last' = [op |-> "rc_downgrade"]
    /\ UNCHANGED <<MEMORY_SIZE, memory_start, regions, panicked, live, boxes, refused, borrowed>>

\* Weak::upgrade
WeakUpgrade(b) ==
    /\ ~panicked
    /\ b \in rcs /\ ~b.freed /\ b.wk > 0
    /\ b.rc + b.wk < MaxHandles
    /\ IF b.strong > 0
       THEN /\ rcs' = Update(b, [b EXCEPT !.strong = b.strong + 1, !.rc = b.rc + 1])
            /\ last' = [op |-> "weak_upgrade", res |-> "Some", pre |-> b]
       ELSE /\ rcs' = rcs
            /\ last' = [op |-> "weak_upgrade", res |-> "None", pre |-> b]
    /\ UNCHANGED <<MEMORY_SIZE, memory_start, regions, panicked, live, boxes, refused, borrowed>>

\* RcBox::try_free_inner followed by unwrap: the outcomes [regions, panic]
try_free_inner(regs, b) ==
    IF b.val = None
    THEN {[regions |-> regs, panic |-> TRUE]}         \* unreachable!()
    ELSE unwrap(try_free_value(regs, b.val.ptr))

\* The destructor of the value, which try_free_value runs before it releases
\* the region of the value, on block c with strong = 0: [panic, blk].  A Weak
\* the value holds is dropped (Drop for Weak).  If that takes weak to 0 the
\* Weak releases the control block with try_free_value, whose Drop for RcBox
\* finds val still Some and drops the value a second time: the Weak in it is
\* dropped again and decrement_weak underflows.
drop_value(c) ==
    IF ~c.held THEN [panic |-> FALSE, blk |-> c]
    ELSE IF c.weak = 0
    THEN [panic |-> TRUE, blk |-> c]
    ELSE LET e == [c EXCEPT !.weak = c.weak - 1, !.held = FALSE]
         IN  IF e.strong = 0 /\ e.weak = 0
             THEN [panic |-> TRUE, blk |-> e]
             ELSE [panic |-> FALSE, blk |-> e]

\* Drop for Rc: the outcomes [regions, panic, blk]
rc_drop(regs, b) ==
    IF b.strong = 0
    THEN \* decrement_strong underflows
         {[regions |-> regs, panic |-> TRUE, blk |-> b]}
    ELSE LET c == [b EXCEPT !.strong = b.strong - 1, !.rc = b.rc - 1]
         IN  IF c.strong # 0
             THEN {[regions |-> regs, panic |-> FALSE, blk |-> c]}
             ELSE IF c.val # None /\ drop_value(c).panic
             THEN {[regions |-> regs, panic |-> TRUE, blk |-> drop_value(c).blk]}
             ELSE LET d == IF c.val = None THEN c ELSE drop_value(c).blk
                  IN  UNION {
                        IF i.panic
                        THEN {[regions |-> i.regions, panic |-> TRUE, blk |-> d]}
                        ELSE IF d.weak = 0
                        THEN {[regions |-> o.regions, panic |-> o.panic,
                               blk |-> [d EXCEPT !.val = None, !.freed = ~o.panic]] :
                                o \in unwrap(try_free_value(i.regions, d.rc_box))}
                        ELSE {[regions |-> i.regions, panic |-> FALSE,
                               blk |-> [d EXCEPT !.val = None]]}
                        : i \in try_free_inner(regs, d)}

\* Drop for Weak: the outcomes [regions, panic, blk]
weak_drop(regs, b) ==
    IF b.weak = 0
    THEN \* decrement_weak underflows
         {[regions |-> regs, panic |-> TRUE, blk |-> b]}
    ELSE LET c == [b EXCEPT !.weak = b.weak - 1, !.wk = b.wk - 1]
         IN  IF c.strong = 0 /\ c.weak = 0
             THEN {[regions |-> o.regions, panic |-> o.panic,
                    blk |-> [c EXCEPT !.freed = ~o.panic]] :
                     o \in unwrap(try_free_value(regs, c.rc_box))}
             ELSE {[regions |-> regs, panic |-> FALSE, blk |-> c]}

RcDrop(b) ==
    /\ ~panicked
    /\ b \in rcs /\ ~b.freed /\ b.rc > 0
    /\ \E o \in rc_drop(regions, b) :
        /\ regions' = o.regions
        /\ panicked' = o.panic
        /\ rcs' = Update(b, o.blk)
        /\ last' = [op |-> "rc_drop", pre |-> b, blk |-> o.blk]
    /\ UNCHANGED <<MEMORY_SIZE, memory_start, live, boxes, refused, borrowed>>

WeakDrop(b) ==
    /\ ~panicked
    /\ b \in rcs /\ ~b.freed /\ b.wk > 0
    /\ \E o \in weak_drop(regions, b) :
        /\ regions' = o.regions
        /\ panicked' = o.panic
        /\ rcs' = Update(b, o.blk)
        /\ last' = [op |-> "weak_drop", pre |-> b, blk |-> o.blk]
    /\ UNCHANGED <<MEMORY_SIZE, memory_start, live, boxes, refused, borrowed>>

NextPtr ==
    \/ \E l \in Layouts : BoxNew(l)
    \/ \E b \in boxes : BoxDrop(b)
    \/ \E vl \in Layouts, bl \in Layouts : RcNew(vl, bl)
    \/ \E b \in rcs : RcClone(b)
    \/ \E b \in rcs : RcDowngrade(b)
    \/ \E b \in rcs : WeakUpgrade(b)
    \/ \E b \in rcs : RcDrop(b)
    \/ \E b \in rcs : WeakDrop(b)

SpecPtr == Init /\ [][NextPtr]_vars

\* The client moves a Weak it holds into the value of the same control
\* block, through a live Rc (a node that links to itself weakly)
StoreWeak(b) ==
    /\ ~panicked
    /\ b \in rcs /\ ~b.freed /\ b.rc > 0 /\ b.wk > 0
    /\ b.val # None
    /\ ~b.held
    /\ rcs' = Update(b, [b EXCEPT !.wk = b.wk - 1, !.held = TRUE])
    /\ last' = [op |-> "store_weak"]
    /\ UNCHANGED <<MEMORY_SIZE, memory_start, regions, panicked, live, boxes, refused, borrowed>>

\* Rc and Weak of values that may hold a Weak
NextCycle ==
    \/ \E vl \in Layouts, bl \in Layouts : RcNew(vl, bl)
    \/ \E b \in rcs : RcClone(b)
    \/ \E b \in rcs : RcDowngrade(b)
    \/ \E b \in rcs : WeakUpgrade(b)
    \/ \E b \in rcs : StoreWeak(b)
    \/ \E b \in rcs : RcDrop(b)
    \/ \E b \in rcs : WeakDrop(b)

SpecCycle == Init /\ [][NextCycle]_vars

(***************************************************************************)
(* Addresses: the allocator as GlobalAlloc and the Box of box.rs, with the *)
(* pointers they hand out and take back as addresses of bytes              *)
(***************************************************************************)
\* pointer::add: count elements of size_of bytes each after ptr
add(ptr, count, size_of) == ptr + count * size_of

\* `ptr as usize - self.memory.get() as usize`
offset_from(base, ptr) == ptr - base

\* The pointer GlobalAlloc::alloc returns: memory.get().cast::<u8>().add(offset),
\* the pointee is a byte
alloc_pointer(base, offset) == add(base, offset, 1)

\* The pointer Box::try_new writes through: memory.get().add(addr).cast::<T>(),
\* the pointee of memory.get() is the whole array [u8; MEMORY_SIZE]
box_pointer(base, addr, memory_size) == add(base, addr, memory_size)

\* IndexAllocator::try_free on a pointer, as Box calls it: the offset of the
\* pointer from the base of the buffer is released; [res, regions, panic]
try_free_pointer(regs, base, ptr, b) ==
    guarded_free(regs, offset_from(base, ptr), b)

\* What the client holds of a reservation: the pointer, and the offset
\* try_reserve returned for it; dup tells apart those otherwise equal
Allocation(held, ptr, off, size) ==
    [ptr |-> ptr, off |-> off, size |-> size,
     dup |-> Min({d \in 0 .. Cardinality(held) :
                    \A a \in held : ~(a.ptr = ptr /\ a.size = size /\ a.dup = d)})]

\* GlobalAlloc::alloc: try_reserve(layout).unwrap(), then the pointer
alloc(size, align) ==
    /\ ~panicked
    /\ LET r == try_reserve(regions, memory_start, size, align)
           ptr == IF r.res.ok THEN alloc_pointer(memory_start, r.res.val) ELSE 0
       IN  /\ regions' = r.regions
           /\ panicked' = ~r.res.ok
           /\ live' = IF r.res.ok
                      THEN live \cup {Allocation(live, ptr, r.res.val, size)}
                      ELSE live
           /\ last' = [op |-> "alloc", res |-> r.res, ptr |-> ptr]
    /\ UNCHANGED <<MEMORY_SIZE, memory_start, boxes, rcs, refused, borrowed>>

\* GlobalAlloc::dealloc of a pointer alloc returned: the offset of the pointer,
\* then try_free(offset).unwrap()
dealloc(a) ==
    /\ ~panicked
    /\ a \in live
    /\ LET offset == offset_from(memory_start, a.ptr)
       IN  /\ \E o \in unwrap(guarded_free(regions, offset, borrowed)) :
                /\ regions' = o.regions
                /\ panicked' = o.panic
           /\ last' = [op |-> "dealloc", ptr |-> a.ptr, off |-> a.off,
                       offset |-> offset]
    /\ live' = live \ {a}
    /\ UNCHANGED <<MEMORY_SIZE, memory_start, boxes, rcs, refused, borrowed>>

\* Box::try_new of box.rs: try_reserve(layout)?, then the value is moved to
\* the pointer and the Box keeps the pointer
BoxTryNew(layout) ==
    /\ ~panicked
    /\ Cardinality(boxes) < MaxBoxes
    /\ LET r == try_reserve(regions, memory_start, layout.size, layout.align)
           ptr == IF r.res.ok
                  THEN box_pointer(memory_start, r.res.val, MEMORY_SIZE)
                  ELSE 0
       IN  /\ regions' = r.regions
           /\ boxes' = IF r.res.ok
                       THEN boxes \cup {Allocation(boxes, ptr, r.res.val, layout.size)}
                       ELSE boxes
           /\ last' = [op |-> "box_try_new", res |-> r.res, ptr |-> ptr]
    /\ UNCHANGED <<MEMORY_SIZE, memory_start, panicked, live, rcs, refused, borrowed>>

\* Drop for Box of box.rs: try_free(self.val as pointer).unwrap()
DropBox(b) ==
    /\ ~panicked
    /\ b \in boxes
    /\ \E o \in unwrap(try_free_pointer(regions, memory_start, b.ptr, borrowed)) :
        /\ regions' = o.regions
        /\ panicked' = o.panic
    /\ boxes' = boxes \ {b}
    /\ last' = [op |-> "box_drop_pointer", ptr |-> b.ptr, off |-> b.off,
                offset |-> offset_from(memory_start, b.ptr)]
    /\ UNCHANGED <<MEMORY_SIZE, memory_start, live, rcs, refused, borrowed>>

\* Box::try_free of box.rs: try_free(self.val as pointer) is the result, and
\* self, not forgotten, is dropped when the method returns
BoxTryFree(b) ==
    /\ ~panicked
    /\ b \in boxes
    /\ \E o \in try_free_pointer(regions, memory_start, b.ptr, borrowed) :
        /\ \E d \in IF o.panic
                    THEN {[regions |-> o.regions, panic |-> TRUE]}
                    ELSE unwrap(try_free_pointer(o.regions, memory_start, b.ptr,
                                                 borrowed)) :
              /\ regions' = d.regions
              /\ panicked' = d.panic
        /\ last' = [op |-> "box_try_free", ptr |-> b.ptr, off |-> b.off,
                    offset |-> offset_from(memory_start, b.ptr), res |-> o.res]
    /\ boxes' = boxes \ {b}
    /\ UNCHANGED <<MEMORY_SIZE, memory_start, live, rcs, refused, borrowed>>

NextAddr ==
    \/ \E size \in 1 .. MaxSize, align \in Aligns : alloc(size, align)
    \/ \E a \in live : dealloc(a)
    \/ \E layout \in Layouts : BoxTryNew(layout)
    \/ \E b \in boxes : DropBox(b)
    \/ \E b \in boxes : BoxTryFree(b)

SpecAddr == Init /\ [][NextAddr]_vars

(***************************************************************************)
(* The methods of MemoryIndex applied to the index MemoryIndex::new builds *)
(* from a partition of the pool: one call on each index.                   *)
(***************************************************************************)
\* the regions a set of cut points divides 0 .. memory_size - 1 into
Pieces(memory_size, cuts) ==
    LET B == cuts \cup {0, memory_size}
    IN  {[from |-> a, size |-> Min({b \in B : b > a}) - a] : a \in B \ {memory_size}}

\* MemoryIndex::new on a preexisting partition: the regions of a partition
\* of the pool, used or free, in any slots of the array
Partitions(memory_size, index_size) ==
    UNION {
        LET P == Pieces(memory_size, cuts)
        IN  {[i \in 0 .. index_size - 1 |->
                IF \E q \in P : place[q] = i
                THEN LET q == CHOOSE q \in P : place[q] = i
                     IN  MemoryRegion(q.from, q.size, u[q])
                ELSE None] :
                    place \in {f \in [P -> 0 .. index_size - 1] :
                                 \A a, b \in P : a # b => f[a] # f[b]},
                    u \in [P -> BOOLEAN]}
        : cuts \in SUBSET (1 .. memory_size - 1)}

InitIndex ==
    /\ MEMORY_SIZE \in 1 .. MaxMemory
    /\ memory_start \in Starts
    /\ \E n \in 1 .. MaxIndex : regions \in Partitions(MEMORY_SIZE, n)
    /\ panicked = FALSE
    /\ live = {}
    /\ last = NoOp
    /\ boxes = {}
    /\ rcs = {}
    /\ refused = FALSE
    /\ borrowed = FALSE

\* MemoryIndex::available_index
AvailableIndex ==
    /\ last = NoOp
    /\ last' = [op |-> "available_index", res |-> available_index(regions)]
    /\ UNCHANGED <<MEMORY_SIZE, memory_start, regions, panicked, live, boxes, rcs,
                   refused, borrowed>>

\* MemoryIndex::find_region
FindRegion(addr) ==
    /\ last = NoOp
    /\ last' = [op |-> "find_region", addr |-> addr, res |-> find_region(regions, addr)]
    /\ UNCHANGED <<MEMORY_SIZE, memory_start, regions, panicked, live, boxes, rcs,
                   refused, borrowed>>

\* MemoryIndex::size_region_available
SizeRegionAvailable(size, align) ==
    /\ last = NoOp
    /\ last' = [op |-> "size_region_available", size |-> size, align |-> align,
                res |-> size_region_available(regions, memory_start, size, align)]
    /\ UNCHANGED <<MEMORY_SIZE, memory_start, regions, panicked, live, boxes, rcs,
                   refused, borrowed>>

\* MemoryIndex::split_region
SplitRegion(region, size) ==
    /\ last = NoOp
    /\ LET sp == split_region(regions, region, size)
       IN  /\ regions' = sp.regions
           /\ last' = [op |-> "split_region", region |-> region, size |-> size,
                       res |-> sp.res]
    /\ UNCHANGED <<MEMORY_SIZE, memory_start, panicked, live, boxes, rcs, refused,
                   borrowed>>

\* MemoryIndex::sort_merge
SortMerge ==
    /\ last = NoOp
    /\ \E o \in sort_merge(regions) :
        /\ regions' = o.regions
        /\ panicked' = o.panic
    /\ last' = [op |-> "sort_merge"]
    /\ UNCHANGED <<MEMORY_SIZE, memory_start, live, boxes, rcs, refused, borrowed>>

NextIndex ==
    \/ AvailableIndex
    \/ \E addr \in 0 .. MEMORY_SIZE : FindRegion(addr)
    \/ \E size \in 1 .. MaxSize, align \in Aligns : SizeRegionAvailable(size, align)
    \/ \E region \in DOMAIN regions, size \in 1 .. MEMORY_SIZE : SplitRegion(region, size)
    \/ SortMerge

SpecIndex == InitIndex /\ [][NextIndex]_vars

(***************************************************************************)
(* Properties of the region index                                          *)
(***************************************************************************)
Occupied(regs) == {i \in DOMAIN regs : regs[i] # None}

Bytes(r) == r.from .. (r.from + r.size - 1)

NonOverlapping(regs) ==
    \A i, j \in Occupied(regs) : i # j => Bytes(regs[i]) \cap Bytes(regs[j]) = {}

Covers(regs, memory_size) ==
    UNION {Bytes(regs[i]) : i \in Occupied(regs)} = 0 .. (memory_size - 1)

Released == ~panicked /\ last.op = "release" /\ last.res.ok

Reserved == last.op = "reserve" /\ last.res.ok

\* C1: after any sequence of reserve and release operations the occupied
\* slots hold pairwise non-overlapping regions whose union is [0, M).
C1_Coverage ==
    ~panicked => NonOverlapping(regions) /\ Covers(regions, MEMORY_SIZE)

\* C2: any two allocations reserved and not yet released occupy disjoint
\* byte ranges.
C2_Disjointness ==
    \A a, b \in live : a # b => LiveRange(a) \cap LiveRange(b) = {}

C5_CoalesceMinimality ==
    Released =>
        \A i, j \in Occupied(regions) :
            (i # j /\ ~regions[i].used /\ ~regions[j].used)
                => end(regions[i]) # regions[j].from


(***************************************************************************)
(* Properties of Box, Rc and Weak                                          *)
(***************************************************************************)
Range(off, size) == off .. (off + size - 1)

\* the bytes lie in one used region and in no free region
MarkedUsed(regs, off, size) ==
    /\ \E i \in Occupied(regs) :
          regs[i].used /\ regs[i].from <= off /\ off + size <= end(regs[i])
    /\ \A i \in Occupied(regs) :
          ~regs[i].used => Bytes(regs[i]) \cap Range(off, size) = {}

\* no used region holds any of the bytes
Unused(regs, off, size) ==
    \A i \in Occupied(regs) :
        regs[i].used => Bytes(regs[i]) \cap Range(off, size) = {}

AllDestroyed == boxes = {} /\ rcs = {}

\* C4: once every Box, Rc and Weak built on the allocator has been destroyed
\* (no construction having been refused), slot 0 holds {0, MEMORY_SIZE, free}
\* and every other slot is vacant.
C4_FullReclamation ==
    (~panicked /\ ~refused /\ AllDestroyed) =>
        regions = empty(MEMORY_SIZE, INDEX_SIZE(regions))

\* C6: a Box built by a successful try_new and dropped at once leaves the
\* slot array as it was before the construction.
C6_BoxRoundTrip ==
    (~panicked /\ last.op = "box_drop" /\ last.fresh) => regions = last.pre

\* C7: strong is the number of live Rc handles of a control block and weak
\* the number of its live Weak handles (1 and 0 right after try_new), and no
\* counter is decremented at zero.
C7_CountConservation ==
    /\ \A b \in rcs : ~b.freed => b.strong = b.rc /\ b.weak = b.wk
    /\ (last.op = "rc_new" /\ last.res.ok) =>
          last.blk.strong = 1 /\ last.blk.weak = 0
    /\ last.op = "rc_drop" => last.pre.strong > 0
    /\ last.op = "weak_drop" => last.pre.weak > 0

\* C8: the value region of an Rc is marked used exactly while strong > 0: it
\* is released by the Rc drop that takes strong from 1 to 0 and by nothing
\* before it.
C8_ValueLifecycle ==
    /\ \A b \in rcs : (~b.freed /\ b.strong > 0) =>
          b.val # None /\ MarkedUsed(regions, b.val.ptr, b.vsize)
    /\ (~panicked /\ last.op = "rc_drop" /\ last.pre.strong = 1) =>
          /\ last.pre.val # None
          /\ Unused(regions, last.pre.val.ptr, last.pre.vsize)

\* C9: the control block region stays reserved while strong > 0 or weak > 0,
\* and is released by the Rc drop or Weak drop that makes both zero.
C9_BlockLifecycle ==
    /\ \A b \in rcs : (~b.freed /\ (b.strong > 0 \/ b.weak > 0)) =>
          MarkedUsed(regions, b.rc_box, b.bsize)
    /\ (~panicked /\ last.op \in {"rc_drop", "weak_drop"}) =>
          /\ last.blk.freed = (last.blk.strong = 0 /\ last.blk.weak = 0)
          /\ last.blk.freed => Unused(regions, last.blk.rc_box, last.blk.bsize)

\* C10: Weak::upgrade returns Some and adds one to strong whenever strong > 0,
\* in particular while an Rc lives, and returns None, leaving the counters
\* and the index alone, once the last Rc has been dropped.
C10_Upgrade ==
    [][\A b \in rcs : WeakUpgrade(b) =>
          IF b.strong > 0 \/ b.rc > 0
          THEN /\ last'.res = "Some"
               /\ [b EXCEPT !.strong = b.strong + 1, !.rc = b.rc + 1] \in rcs'
          ELSE /\ last'.res = "None"
               /\ rcs' = rcs
               /\ regions' = regions]_vars

(***************************************************************************)
(* Error handling of the byte interface                                    *)
(***************************************************************************)
\* the index of a fresh allocator
FreshIndex == regions = empty(MEMORY_SIZE, INDEX_SIZE(regions))

\* an allocation of the whole pool is the one live allocation
WholePoolHeld ==
    /\ live = {[off |-> 0, size |-> MEMORY_SIZE, dup |-> 0]}
    /\ regions[0] = MemoryRegion(0, MEMORY_SIZE, TRUE)

\* C11: in a fresh allocator a reservation of MEMORY_SIZE bytes at alignment
\* 1 succeeds, and while that allocation is live every reservation fails
\* with NoFittingRegion.
C11_WholePool ==
    [][\A size \in 1 .. MaxSize, align \in Aligns :
          Reserve(size, align) =>
              /\ (FreshIndex /\ live = {} /\ size = MEMORY_SIZE /\ align = 1)
                    => last'.res.ok
              /\ WholePoolHeld => last'.res = Err("NoFittingRegion")]_vars

\* no free region holds size bytes at an offset aligned with respect to the base
NoAlignedFit(size, align) ==
    \A i \in Occupied(regions) :
        \/ regions[i].used
        \/ ~\E o \in regions[i].from .. end(regions[i]) :
              (memory_start + o) % align = 0 /\ o + size <= end(regions[i])

Full(regs) == Occupied(regs) = DOMAIN regs

\* the region the fit search finds for (size, align) is larger than the
\* pad and the padded size: the reservation has to split it
RequiresSplit(size, align) ==
    LET mem_size == pad_to_align(size, align)
        baker == size_region_available(regions, memory_start, mem_size, align)
    IN  /\ baker.ok
        /\ baker.val.offset + mem_size < regions[baker.val.region].size

\* C13: a reservation that finds a fitting free region it has to split while
\* every slot is occupied returns NoIndexAvailable and leaves the index
\* unchanged.
C13_NoIndexAvailable ==
    [][\A size \in 1 .. MaxSize, align \in Aligns :
          (Reserve(size, align) /\ Full(regions) /\ RequiresSplit(size, align)) =>
              /\ last'.res = Err("NoIndexAvailable")
              /\ regions' = regions]_vars

\* a reservation was refused with NoIndexAvailable in an index of two slots
\* or more, all occupied, that holds a free region larger than the request
C13_Witness ==
    /\ last.op = "reserve"
    /\ last.res = Err("NoIndexAvailable")
    /\ INDEX_SIZE(regions) >= 2
    /\ Full(regions)
    /\ \E i \in Occupied(regions) :
          ~regions[i].used /\ regions[i].size > last.size

\* the call returned IndexAlreadyBorrowed, did not panic and left the index alone
Refused == last'.res = Err("IndexAlreadyBorrowed") /\ ~panicked' /\ regions' = regions

\* C14: a reserve or release invoked while the index is borrowed by another
\* operation returns IndexAlreadyBorrowed; it does not panic and does not
\* modify the index.
C14_Reentrancy ==
    [][borrowed =>
          /\ \A size \in 1 .. MaxSize, align \in Aligns :
                Reserve(size, align) => Refused
          /\ \A a \in live : Release(a) => Refused
          /\ \A addr \in 0 .. MEMORY_SIZE : ReleaseInvalid(addr) => Refused]_vars

\* C15: a release of an offset that lies in no region returns OutOfMemory and
\* leaves the index unchanged: no used flag changes and no coalesce pass runs.
C15_ReleaseOutside ==
    [][\A addr \in 0 .. MEMORY_SIZE :
          ReleaseInvalid(addr) =>
              /\ last'.res = Err("OutOfMemory")
              /\ regions' = regions
              /\ ~panicked']_vars

\* a release of an offset in no region was refused while an allocation is
\* live and the slots are not in ascending order: a coalesce pass would have
\* changed the index
C15_Witness ==
    /\ last.op = "release_invalid"
    /\ last.res = Err("OutOfMemory")
    /\ live # {}
    /\ \E i, j \in Occupied(regions) : i < j /\ regions[i].from > regions[j].from

\* C16: every reserve and release call returns a result or an error from
\* every reachable index: none panics and none loops for ever.
C16_Termination == ~panicked

\* the smallest multiple of align that is >= size
SmallestMultiple(size, align) ==
    Min({k \in size .. size + align - 1 : k % align = 0})

\* the base address is aligned for every alignment of the model
AlignedBase == \A align \in Aligns : memory_start % align = 0

C18_NoZeroSize ==
    \A i \in Occupied(regions) : regions[i].size > 0

\* the reservation finds a fitting free region whose size is exactly the
\* size it passes to split_region
ExactSplit(size, align) ==
    LET mem_size == pad_to_align(size, align)
        baker == size_region_available(regions, memory_start, mem_size, align)
    IN  /\ baker.ok
        /\ baker.val.offset + mem_size = regions[baker.val.region].size

\* C19: a reservation that splits a region at its full size occupies no new
\* slot: the number of occupied slots is unchanged.
C19_ExactFitNoSlot ==
    [][\A size \in 1 .. MaxSize, align \in Aligns :
          (Reserve(size, align) /\ ExactSplit(size, align)) =>
              Cardinality(Occupied(regions')) = Cardinality(Occupied(regions))]_vars

\* the occupied slots are the first slots of the array
OccupiedPrefix(regs) ==
    \A i, j \in DOMAIN regs : (i < j /\ regs[j] # None) => regs[i] # None

\* the from values of the occupied slots ascend strictly in slot order
StrictlyAscending(regs) ==
    \A i, j \in Occupied(regs) : i < j => regs[i].from < regs[j].from

\* C20: after every successful release the occupied slots form a prefix of
\* the array and their from values are strictly ascending in slot order.
C20_PostReleaseOrder ==
    Released => OccupiedPrefix(regions) /\ StrictlyAscending(regions)

(***************************************************************************)
(* Further properties of Rc and Weak                                       *)
(***************************************************************************)
\* C21: while at least one Rc of a control block is live its value field is
\* Some; the field is None exactly when strong = 0, and try_free_inner is
\* never called on a block whose field is None already.
C21_ValuePresent ==
    /\ ~panicked =>
          \A b \in rcs : ~b.freed =>
              /\ b.rc > 0 => b.val # None
              /\ (b.val = None) <=> (b.strong = 0)
    /\ (last.op = "rc_drop" /\ last.pre.strong = 1) => last.pre.val # None

(***************************************************************************)
(* The operations of the region index                                      *)
(***************************************************************************)
\* the fit search places (size, align) behind a pad in the region it finds
PlacedWithPad(size, align) ==
    LET baker == size_region_available(regions, memory_start,
                                       pad_to_align(size, align), align)
    IN  baker.ok /\ baker.val.offset > 0

\* C22: when a request is placed in a free region with pad > 0, the region
\* marked used afterwards starts at the aligned offset returned and has the
\* size reserved for the request.
C22_PaddedPlacement ==
    [][\A size \in 1 .. MaxSize, align \in Aligns :
          (Reserve(size, align) /\ PlacedWithPad(size, align) /\ last'.res.ok) =>
              \E i \in Occupied(regions') :
                  regions'[i] = MemoryRegion(last'.res.val,
                                             SmallestMultiple(size, align), TRUE)]_vars

\* the pad of region r for an alignment: the least p >= 0 that makes
\* base + r.from + p a multiple of align
Pad(r, align) ==
    Min({p \in 0 .. align - 1 : (memory_start + r.from + p) % align = 0})

\* the slots a placement of (size, align) qualifies for
Qualifies(regs, size, align) ==
    {i \in Occupied(regs) :
        ~regs[i].used /\ regs[i].from + Pad(regs[i], align) + size <= end(regs[i])}

\* C23: the placement search returns the lowest slot, in slot order, whose
\* region is free and holds pad + size bytes, together with that pad, and
\* returns NoFittingRegion only if no slot qualifies.
C23_FirstFit ==
    [][\A size \in 1 .. MaxSize, align \in Aligns :
          SizeRegionAvailable(size, align) =>
              LET Q == Qualifies(regions, size, align)
              IN  IF Q = {}
                  THEN last'.res = Err("NoFittingRegion")
                  ELSE last'.res = Ok([region |-> Min(Q),
                                       offset |-> Pad(regions[Min(Q)], align)])]_vars

\* the search has returned a slot with a pad although a free region of a
\* lower address, in a later slot, qualifies as well
C23_Witness ==
    /\ last.op = "size_region_available"
    /\ last.res.ok
    /\ last.res.val.offset > 0
    /\ \E j \in Qualifies(regions, last.size, last.align) :
          /\ j > last.res.val.region
          /\ regions[j].from < regions[last.res.val.region].from

\* C24: a successful split(slot, left_size) of a region {from, size, used}
\* leaves {from, left_size, used} in the slot, writes
\* {from + left_size, size - left_size, used} into the lowest vacant slot,
\* changes no other slot and returns the two slots; with size < left_size it
\* fails with RegionTooThin and changes nothing.
C24_Split ==
    [][\A slot \in DOMAIN regions, left_size \in 1 .. MEMORY_SIZE :
          (SplitRegion(slot, left_size) /\ regions[slot] # None) =>
              LET r == regions[slot]
                  vacant == {i \in DOMAIN regions : regions[i] = None}
              IN  IF r.size < left_size
                  THEN last'.res = Err("RegionTooThin") /\ regions' = regions
                  ELSE last'.res.ok =>
                          /\ last'.res.val = <<slot, Min(vacant)>>
                          /\ regions' =
                                [i \in DOMAIN regions |->
                                    IF i = slot
                                    THEN MemoryRegion(r.from, left_size, r.used)
                                    ELSE IF i = Min(vacant)
                                    THEN MemoryRegion(r.from + left_size,
                                                      r.size - left_size, r.used)
                                    ELSE regions[i]]]_vars

\* a used region was split into two pieces of positive size, the right one
\* written into a vacant slot that lies before the slot of the left one and
\* is not the only vacant slot
C24_Witness ==
    /\ last.op = "split_region"
    /\ last.res.ok
    /\ last.res.val[2] < last.res.val[1]
    /\ regions[last.res.val[1]].used
    /\ regions[last.res.val[2]].used
    /\ regions[last.res.val[2]].size > 0
    /\ regions[last.res.val[2]].from = end(regions[last.res.val[1]])
    /\ \E i \in DOMAIN regions : regions[i] = None

\* the regions of an index
RegionsOf(regs) == {regs[i] : i \in Occupied(regs)}

\* the free regions that begin a maximal run of address-consecutive free
\* regions: no free region ends where they begin
RunHeads(regs) ==
    {r \in RegionsOf(regs) :
        ~r.used /\ ~\E q \in RegionsOf(regs) : ~q.used /\ q # r /\ end(q) = r.from}

\* the end of the run of address-consecutive free regions that begins with r
RECURSIVE RunEnd(_, _)
RunEnd(regs, r) ==
    LET next == {q \in RegionsOf(regs) : ~q.used /\ q # r /\ q.from = end(r)}
    IN  IF next = {} \/ r.size = 0 THEN end(r)
        ELSE RunEnd(regs, CHOOSE q \in next : TRUE)

\* the regions a coalesce pass has to leave: the used regions as they are and
\* one free region for each maximal run of free regions
Coalesced(regs) ==
    {r \in RegionsOf(regs) : r.used}
        \cup {MemoryRegion(h.from, RunEnd(regs, h) - h.from, FALSE) : h \in RunHeads(regs)}

\* the regions of R in ascending order of from in the first slots of an array
\* with the domain of regs, the slots behind them vacant
InAddressOrder(regs, R) ==
    [i \in DOMAIN regs |->
        IF \E r \in R : Cardinality({q \in R : q.from < r.from}) = i
        THEN CHOOSE r \in R : Cardinality({q \in R : q.from < r.from}) = i
        ELSE None]

\* C25: on an index that partitions the pool sort_merge replaces every
\* maximal run of address-consecutive free regions by one free region that
\* starts at the first from of the run and has the sum of its sizes, keeps
\* the regions in address order and sets every slot behind them to vacant.
C25_Coalesce ==
    [][SortMerge =>
          /\ ~panicked'
          /\ regions' = InAddressOrder(regions, Coalesced(regions))]_vars

\* the number of slots that hold the used region r
UsedCount(regs, r) ==
    Cardinality({i \in Occupied(regs) : regs[i] = r /\ regs[i].used})

\* the used regions of two indexes are the same, slot numbers apart
SameUsed(before, after) ==
    \A r \in {q \in RegionsOf(before) \cup RegionsOf(after) : q.used} :
        UsedCount(before, r) = UsedCount(after, r)

\* C26: a sort_merge that returns leaves the used regions as they were: none
\* is merged, dropped, resized or duplicated, adjacent used regions included.
C26_UsedPreserved ==
    [][(SortMerge /\ ~panicked') => SameUsed(regions, regions')]_vars

\* sort_merge has returned an index in which two used regions are adjacent
\* and a free region follows them
C26_Witness ==
    /\ last.op = "sort_merge"
    /\ ~panicked
    /\ \E i, j, k \in Occupied(regions) :
          /\ regions[i].used /\ regions[j].used /\ ~regions[k].used
          /\ end(regions[i]) = regions[j].from
          /\ end(regions[j]) = regions[k].from
          /\ regions[k].size > 0

\* C27: the coalesce pass of a release stays inside the slot array: no
\* release panics with an index out of bounds, a release on an index whose
\* slots are all occupied and whose highest-address region is used included.
C27_InBounds ==
    [][\A a \in live : Release(a) => ~panicked']_vars

\* C28: when the drop of the last Rc runs the destructor of a value that
\* drops the last Weak of the same control block, the drop returns and the
\* control block region is released once, by the Rc drop when it has
\* finished with the control block.
C28_NestedDrop ==
    [][\A b \in rcs :
          (RcDrop(b) /\ b.held /\ b.rc = 1 /\ b.strong = 1
                     /\ b.wk = 0 /\ b.weak = 1) =>
              /\ ~panicked'
              /\ last'.blk.freed
              /\ Unused(regions', b.rc_box, b.bsize)]_vars

\* Rc::try_new of (vl, bl) reserves the value and then fails to reserve the
\* control block
BlockRefused(vl, bl) ==
    LET v == try_alloc_value(regions, memory_start, vl)
    IN  /\ v.res.ok
        /\ ~try_alloc_value(v.regions, memory_start, bl).res.ok

\* the offset Rc::try_new of (vl, bl) reserves for the value
ValueOffset(vl) == try_alloc_value(regions, memory_start, vl).res.val

\* C29: an Rc::try_new that reserves the value and fails to reserve the
\* control block returns the error of that reservation and releases the
\* region of the value: no region the failed call reserved remains used.
C29_FailedConstruction ==
    [][\A vl \in Layouts, bl \in Layouts :
          (RcNew(vl, bl) /\ BlockRefused(vl, bl)) =>
              /\ ~panicked'
              /\ last'.res =
                    try_alloc_value(try_alloc_value(regions, memory_start, vl).regions,
                                    memory_start, bl).res
              /\ Unused(regions', ValueOffset(vl), vl.size)
              /\ \A i \in Occupied(regions') :
                    regions'[i].used => regions'[i] \in RegionsOf(regions)]_vars

\* the last call was a release of addr, an offset in a free region, and it
\* returned Ok
JustReleased(addr) ==
    last.op = "release_freed" /\ last.addr = addr /\ last.res.ok /\ ~panicked

\* C30: a release of an offset that lies in a region that is free already
\* returns Ok, and a second release of the same offset right after it returns
\* Ok as well and leaves the index as the first release left it.
C30_ReleaseFreed ==
    [][\A addr \in 0 .. MEMORY_SIZE :
          /\ ReleaseFreed(addr) =>
                /\ last'.res.ok
                /\ ~panicked'
                /\ JustReleased(addr) => regions' = regions
          /\ (ReleaseInvalid(addr) /\ JustReleased(addr)) => last'.res.ok]_vars

\* C31: Rc::clone adds one to strong and Rc::downgrade adds one to weak of
\* the control block of the Rc; neither changes the other counter, the value
\* field or any slot of the index, and the handle returned refers to the same
\* control block.
C31_CloneDowngradeFrame ==
    [][\A b \in rcs :
          /\ RcClone(b) =>
                /\ rcs' = (rcs \ {b}) \cup
                             {[b EXCEPT !.strong = b.strong + 1, !.rc = b.rc + 1]}
                /\ regions' = regions
                /\ ~panicked'
          /\ RcDowngrade(b) =>
                /\ rcs' = (rcs \ {b}) \cup
                             {[b EXCEPT !.weak = b.weak + 1, !.wk = b.wk + 1]}
                /\ regions' = regions
                /\ ~panicked']_vars

\* an Rc was cloned and one of the two downgraded: the control block has two
\* Rc and one Weak
C31_Witness ==
    /\ last.op = "rc_downgrade"
    /\ ~panicked
    /\ \E b \in rcs :
          /\ ~b.freed
          /\ b.rc = 2 /\ b.strong = 2
          /\ b.wk = 1 /\ b.weak = 1
          /\ b.val # None

\* C32: address translation round-trips: the pointer handed out for a reserved
\* offset o is base + o in bytes, so that its offset from the base of the
\* buffer lies in 0 .. MEMORY_SIZE - 1, and the offset computed from that
\* pointer at release is o.
C32_AddressRoundTrip ==
    /\ (last.op \in {"alloc", "box_try_new"} /\ last.res.ok) =>
          /\ last.ptr = memory_start + last.res.val
          /\ last.ptr - memory_start \in 0 .. (MEMORY_SIZE - 1)
    /\ last.op \in {"dealloc", "box_drop_pointer", "box_try_free"} =>
          last.offset = last.off
    /\ \A a \in live \cup boxes :
          /\ a.ptr = memory_start + a.off
          /\ a.ptr - memory_start \in 0 .. (MEMORY_SIZE - 1)
          /\ offset_from(memory_start, a.ptr) = a.off

=============================================================================
